---- MODULE Spec2Model ----
(***************************************************************************)
(* A model of zond/mug's client package (src/client/client.go): the        *)
(* connection slot (getConn/setConn), connect and its reader goroutine,    *)
(* and the line dispatcher handleLine.                                     *)
(*                                                                         *)
(* Threads: "ui" is the gocui event loop, which runs handleLine, the otto  *)
(* evaluator and connect to completion, one event at a time; every         *)
(* successful connect spawns one reader goroutine bound to its handle.     *)
(* "bg" is a second thread that only the specification SpecRace moves: it  *)
(* calls setConn concurrently with "ui".                                   *)
(*                                                                         *)
(* Handles are numbered 1, 2, ... in dial order; NoConn (0) is the nil     *)
(* pointer.  Lines are sequences of one-character strings: inputLine is    *)
(* what v.Line(0) returns to handleLine.  The evaluator is a black box     *)
(* that may call connect any number of times and then returns a value or   *)
(* an error.                                                               *)
(***************************************************************************)
EXTENDS Naturals, Sequences, FiniteSets

\* ---------------------------------------------------------------- bounds
MaxConns == 2
MaxRaceCalls == 3
MaxLineLen == 3
MaxLines == 2
MaxBytes == 1
\* ... and in the specifications of the readers alone
MaxNetBytes == 2

\* Time is counted in units of 100 ms: the zero time.Time, the clock's
\* reading when the program starts, how long the clock is followed from
\* then on, and how many appends the interrupt and arrow keys make
ZeroTime == 0
Boot == 20
MaxTime == 25
MaxGestures == 4

\* const ctrlcTimeout = time.Second
ctrlcTimeout == 10

Chars == {" ", "/", "a"}
Hosts == {"h1", "h2"}
Threads == {"ui", "bg"}
NoConn == 0
Handles == 1..(MaxConns + MaxRaceCalls)
Lines == UNION {[1..n -> Chars] : n \in 0..MaxLineLen}

VARIABLES
    connection,  \* Client.connection: the slot, NoConn or a handle
    closes,      \* closes[h]: how many times Close was called on handle h
    dialed,      \* how many handles have been dialed so far
    installed,   \* history: the handles stored by a successful CAS, in order
    pc,          \* pc[t]: where thread t is
    oldConn,     \* oldConn[t]: setConn's local variable
    c,           \* c[t]: setConn's argument
    host,        \* the host argument of the connect call in progress
    inputLine,   \* the input view's line 0
    submitted,   \* how many lines have been submitted
    evalSrc,     \* the expression text handed to ot.Run
    evalVal,     \* the value the running script would return
    output,      \* the appends made to the output view, in order
    wlog,        \* the writes made to handles, in order
    reader,      \* reader[h]: state and host of the goroutine bound to h
    rcvd,        \* rcvd[h]: how many bytes the reader of h has read
    peerEOF,     \* peerEOF[h]: the peer has closed connection h
    appending,   \* the threads that are inside Outputf (0: UI, h: reader of h)
    ctrlcAt,     \* Client.ctrlcAt
    now          \* what time.Now() returns, in units of 100 ms

vars == <<connection, closes, dialed, installed, pc, oldConn, c, host,
          inputLine, submitted, evalSrc, evalVal, output, wlog, reader,
          rcvd, peerEOF, appending, ctrlcAt, now>>

slotVars == <<connection, closes, installed, oldConn, c>>
uiVars == <<host, inputLine, submitted, evalSrc, evalVal>>
netVars == <<reader, rcvd, peerEOF>>
auxVars == <<appending, ctrlcAt, now>>

\* ------------------------------------------------------------- helpers
IsSpace(ch) == ch = " "

RECURSIVE TrimLeft(_)
TrimLeft(s) == IF s # <<>> /\ IsSpace(Head(s)) THEN TrimLeft(Tail(s)) ELSE s

RECURSIVE TrimRight(_)
TrimRight(s) ==
    IF s # <<>> /\ IsSpace(s[Len(s)])
    THEN TrimRight(SubSeq(s, 1, Len(s) - 1))
    ELSE s

\* strings.TrimSpace
TrimSpace(s) == TrimRight(TrimLeft(s))

\* line[:len(line)-1]
DropLast(s) == SubSeq(s, 1, Len(s) - 1)

\* what fmt.Fprintln(w, line) writes
Fprintln(line) == Append(line, "\n")

NoVal == [tag |-> "none", host |-> "", cause |-> ""]
PlainVal == [tag |-> "plain", host |-> "", cause |-> ""]
ConnectedVal(hst) == [tag |-> "connected", host |-> hst, cause |-> ""]
ConnErrVal(hst, cause) == [tag |-> "connerr", host |-> hst, cause |-> cause]

NoReader == [st |-> "none", host |-> ""]

Alive == pc["ui"] # "crashed"

\* atomic.LoadPointer(&self.connection)
getConn == connection

\* An append to the output view: src is 0 for the UI thread and h for the
\* reader of handle h
Item(src, kind, text, val, hst, cause, n) ==
    [src |-> src, kind |-> kind, text |-> text, val |-> val, host |-> hst,
     cause |-> cause, n |-> n]

\* Client.Outputf, with the output view in place (layout has run)
Outputf(item) == output' = Append(output, item)

\* A write to handle h: data are the bytes, ok is whether Write succeeded
Written(h, data, ok) == [conn |-> h, data |-> data, ok |-> ok]

\* The results a Write on handle h can have: it fails on a handle that was
\* closed locally, may fail once the peer is gone, and succeeds otherwise
WriteOutcomes(h) ==
    IF closes[h] > 0 THEN {FALSE}
    ELSE IF peerEOF[h] THEN BOOLEAN
    ELSE {TRUE}

Init ==
    /\ connection = NoConn
    /\ closes = [h \in Handles |-> 0]
    /\ dialed = 0
    /\ installed = <<>>
    /\ pc = [t \in Threads |-> "idle"]
    /\ oldConn = [t \in Threads |-> NoConn]
    /\ c = [t \in Threads |-> NoConn]
    /\ host = ""
    /\ inputLine = <<>>
    /\ submitted = 0
    /\ evalSrc = <<>>
    /\ evalVal = NoVal
    /\ output = <<>>
    /\ wlog = <<>>
    /\ reader = [h \in Handles |-> NoReader]
    /\ rcvd = [h \in Handles |-> 0]
    /\ peerEOF = [h \in Handles |-> FALSE]
    /\ appending = {}
    /\ ctrlcAt = ZeroTime
    /\ now = Boot

\* ---------------------------------------------------------------- setConn
\* oldConn = self.getConn(); the branch on oldConn != nil
setConnLoad(t) ==
    /\ Alive
    /\ pc[t] = "load"
    /\ oldConn' = [oldConn EXCEPT ![t] = getConn]
    /\ pc' = [pc EXCEPT ![t] = IF getConn # NoConn THEN "close" ELSE "cas"]
    /\ UNCHANGED <<connection, closes, installed, c, dialed, output, wlog>>
    /\ UNCHANGED uiVars
    /\ UNCHANGED netVars

\* setConn without the Close of the handle it replaces
setConnCloseSkipped(t) ==
    /\ Alive
    /\ pc[t] = "close"
    /\ pc' = [pc EXCEPT ![t] = "cas"]
    /\ UNCHANGED <<connection, closes, installed, oldConn, c, dialed, output,
                   wlog>>
    /\ UNCHANGED uiVars
    /\ UNCHANGED netVars

\* oldConn.Close()
setConnClose(t) ==
    /\ Alive
    /\ pc[t] = "close"
    /\ closes' = [closes EXCEPT ![oldConn[t]] = @ + 1]
    /\ pc' = [pc EXCEPT ![t] = "cas"]
    /\ UNCHANGED <<connection, installed, oldConn, c, dialed, output, wlog>>
    /\ UNCHANGED uiVars
    /\ UNCHANGED netVars

\* setConn that returns after a failed compare-and-swap instead of retrying
setConnCASNoRetry(t) ==
    /\ Alive
    /\ pc[t] = "cas"
    /\ IF connection = oldConn[t]
       THEN /\ connection' = c[t]
            /\ installed' = Append(installed, c[t])
       ELSE UNCHANGED <<connection, installed>>
    /\ pc' = [pc EXCEPT ![t] = "ret"]
    /\ UNCHANGED <<closes, oldConn, c, dialed, output, wlog>>
    /\ UNCHANGED uiVars
    /\ UNCHANGED netVars

\* setConn whose store is not atomic: the slot ends up with a mix of the
\* old and the new pointer
setConnCASTorn(t) ==
    /\ Alive
    /\ pc[t] = "cas"
    /\ IF connection = oldConn[t]
       THEN /\ connection' = oldConn[t] + c[t]
            /\ installed' = Append(installed, c[t])
            /\ pc' = [pc EXCEPT ![t] = "ret"]
       ELSE /\ pc' = [pc EXCEPT ![t] = "load"]
            /\ UNCHANGED <<connection, installed>>
    /\ UNCHANGED <<closes, oldConn, c, dialed, output, wlog>>
    /\ UNCHANGED uiVars
    /\ UNCHANGED netVars

\* atomic.CompareAndSwapPointer(&self.connection, oldConn, c); on failure
\* setConn calls itself with the same argument
setConnCAS(t) ==
    /\ Alive
    /\ pc[t] = "cas"
    /\ IF connection = oldConn[t]
       THEN /\ connection' = c[t]
            /\ installed' = Append(installed, c[t])
            /\ pc' = [pc EXCEPT ![t] = "ret"]
       ELSE /\ pc' = [pc EXCEPT ![t] = "load"]
            /\ UNCHANGED <<connection, installed>>
    /\ UNCHANGED <<closes, oldConn, c, dialed, output, wlog>>
    /\ UNCHANGED uiVars
    /\ UNCHANGED netVars

setConn(t) == setConnLoad(t) \/ setConnClose(t) \/ setConnCAS(t)

\* ---------------------------------------------------------------- the UI
\* The user types a line into the empty input view between two events of
\* the UI thread
Edit(l) ==
    /\ Alive
    /\ pc["ui"] = "idle"
    /\ submitted < MaxLines
    /\ inputLine = <<>>
    /\ inputLine' = l
    /\ UNCHANGED <<pc, dialed, output, wlog, host, submitted, evalSrc, evalVal>>
    /\ UNCHANGED slotVars
    /\ UNCHANGED netVars

\* A runtime panic (slice bounds or index out of range) ends the process
Panic ==
    /\ pc' = [pc EXCEPT !["ui"] = "crashed"]
    /\ UNCHANGED <<output, wlog, evalSrc, evalVal>>

\* self.ot.Run(line[1:]) begins
RunScript(src) ==
    /\ pc' = [pc EXCEPT !["ui"] = "eval"]
    /\ evalSrc' = src
    /\ evalVal' = PlainVal
    /\ UNCHANGED <<output, wlog>>

\* the else branch: fmt.Fprintln(self.getConn(), line) or the notice
SendLine(line) ==
    /\ IF getConn # NoConn
       THEN /\ \E ok \in WriteOutcomes(getConn) :
                 wlog' = Append(wlog, Written(getConn, Fprintln(line), ok))
            /\ UNCHANGED output
       ELSE /\ Outputf(Item(0, "nowhere", line, NoVal, "", "", 0))
            /\ UNCHANGED wlog
    /\ UNCHANGED <<pc, evalSrc, evalVal>>

\* Client.handleLine, up to the call of the evaluator
handleLine ==
    /\ Alive
    /\ pc["ui"] = "idle"
    /\ submitted < MaxLines
    /\ submitted' = submitted + 1
    /\ inputLine' = <<>>
    /\ IF Len(inputLine) > 0
       THEN LET trimmed == TrimSpace(inputLine) IN
            IF Len(trimmed) = 0
            THEN Panic
            ELSE LET line == DropLast(trimmed) IN
                 IF Len(line) = 0
                 THEN Panic
                 ELSE IF line[1] = "/"
                      THEN RunScript(Tail(line))
                      ELSE SendLine(line)
       ELSE UNCHANGED <<pc, output, wlog, evalSrc, evalVal>>
    /\ UNCHANGED <<dialed, host>>
    /\ UNCHANGED slotVars
    /\ UNCHANGED netVars

\* connect that gives up the current connection when the dial fails
connectResetsOnFailure(hst, outcome) ==
    /\ Alive
    /\ pc["ui"] = "eval"
    /\ IF outcome = "ok"
       THEN /\ dialed < MaxConns
            /\ dialed' = dialed + 1
            /\ reader' = [reader EXCEPT ![dialed + 1] =
                              [st |-> "reading", host |-> hst]]
            /\ c' = [c EXCEPT !["ui"] = dialed + 1]
            /\ host' = hst
            /\ pc' = [pc EXCEPT !["ui"] = "load"]
            /\ UNCHANGED <<evalVal, connection>>
       ELSE /\ evalVal' = ConnErrVal(hst, outcome)
            /\ connection' = NoConn
            /\ UNCHANGED <<dialed, reader, c, host, pc>>
    /\ UNCHANGED <<closes, installed, oldConn>>
    /\ UNCHANGED <<inputLine, submitted, evalSrc, output, wlog, rcvd, peerEOF>>

\* Client.connect called by the script through the binding of bindOtto:
\* resolution or dial fails and the binding returns an error value, or the
\* dial yields a fresh handle, the reader goroutine is started and setConn
\* is entered
connect(hst, outcome) ==
    /\ Alive
    /\ pc["ui"] = "eval"
    /\ IF outcome = "ok"
       THEN /\ dialed < MaxConns
            /\ dialed' = dialed + 1
            /\ reader' = [reader EXCEPT ![dialed + 1] =
                              [st |-> "reading", host |-> hst]]
            /\ c' = [c EXCEPT !["ui"] = dialed + 1]
            /\ host' = hst
            /\ pc' = [pc EXCEPT !["ui"] = "load"]
            /\ UNCHANGED evalVal
       ELSE /\ evalVal' = ConnErrVal(hst, outcome)
            /\ UNCHANGED <<dialed, reader, c, host, pc>>
    /\ UNCHANGED <<connection, closes, installed, oldConn>>
    /\ UNCHANGED <<inputLine, submitted, evalSrc, output, wlog, rcvd, peerEOF>>

\* setConn has returned: connect returns nil and the binding returns the
\* confirmation to the script
connectReturn ==
    /\ Alive
    /\ pc["ui"] = "ret"
    /\ pc' = [pc EXCEPT !["ui"] = "eval"]
    /\ evalVal' = ConnectedVal(host)
    /\ host' = ""
    /\ oldConn' = [oldConn EXCEPT !["ui"] = NoConn]
    /\ c' = [c EXCEPT !["ui"] = NoConn]
    /\ UNCHANGED <<dialed, output, wlog, inputLine, submitted, evalSrc>>
    /\ UNCHANGED <<connection, closes, installed>>
    /\ UNCHANGED netVars

\* ot.Run returned a value: self.Outputf("%v\n", result)
evalReturn ==
    /\ Alive
    /\ pc["ui"] = "eval"
    /\ pc' = [pc EXCEPT !["ui"] = "idle"]
    /\ Outputf(Item(0, "result", <<>>, evalVal, "", "", 0))
    /\ evalSrc' = <<>>
    /\ evalVal' = NoVal
    /\ UNCHANGED <<dialed, wlog, host, inputLine, submitted>>
    /\ UNCHANGED slotVars
    /\ UNCHANGED netVars

\* ot.Run returned an error: self.Outputf("Error executing %#v: %v\n", ...)
evalError ==
    /\ Alive
    /\ pc["ui"] = "eval"
    /\ pc' = [pc EXCEPT !["ui"] = "idle"]
    /\ Outputf(Item(0, "evalerror", evalSrc, NoVal, "", "thrown", 0))
    /\ evalSrc' = <<>>
    /\ evalVal' = NoVal
    /\ UNCHANGED <<dialed, wlog, host, inputLine, submitted>>
    /\ UNCHANGED slotVars
    /\ UNCHANGED netVars

\* ------------------------------------------------------------ the reader
\* A reader that reads from whatever handle the slot holds
ReadsFromSlot(h) == IF getConn # NoConn THEN getConn ELSE h

\* The handle the reader spawned for h reads from: the goroutine's closure
\* holds the conn variable of its own connect call
ReadsFrom(h) == h

\* A reader whose byte lands in front of what the output already holds
readerReadPrepends(h, maxBytes) ==
    /\ Alive
    /\ reader[h].st = "reading"
    /\ closes[ReadsFrom(h)] = 0
    /\ ~peerEOF[ReadsFrom(h)]
    /\ rcvd[ReadsFrom(h)] < maxBytes
    /\ rcvd' = [rcvd EXCEPT ![ReadsFrom(h)] = @ + 1]
    /\ output' = <<Item(h, "byte", <<>>, NoVal, "", "",
                        rcvd[ReadsFrom(h)] + 1)>> \o output
    /\ UNCHANGED <<pc, dialed, wlog, reader, peerEOF>>
    /\ UNCHANGED slotVars
    /\ UNCHANGED uiVars

\* conn.Read returned a byte, one of at most maxBytes the peer sends:
\* Outputf("%v", string(buf))
readerReadN(h, maxBytes) ==
    /\ Alive
    /\ reader[h].st = "reading"
    /\ closes[ReadsFrom(h)] = 0
    /\ ~peerEOF[ReadsFrom(h)]
    /\ rcvd[ReadsFrom(h)] < maxBytes
    /\ rcvd' = [rcvd EXCEPT ![ReadsFrom(h)] = @ + 1]
    /\ Outputf(Item(h, "byte", <<>>, NoVal, "", "", rcvd[ReadsFrom(h)] + 1))
    /\ UNCHANGED <<pc, dialed, wlog, reader, peerEOF>>
    /\ UNCHANGED slotVars
    /\ UNCHANGED uiVars

readerRead(h) == readerReadN(h, MaxBytes)

\* A reader that reports the error and goes on reading
readerDisconnectRestarts(h) ==
    /\ Alive
    /\ reader[h].st = "reading"
    /\ closes[h] > 0 \/ peerEOF[h]
    /\ Outputf(Item(h, "disconnected", <<>>, NoVal, reader[h].host,
                    IF closes[h] > 0 THEN "closed" ELSE "EOF", 0))
    /\ UNCHANGED <<pc, dialed, wlog, reader, rcvd, peerEOF>>
    /\ UNCHANGED slotVars
    /\ UNCHANGED uiVars

\* conn.Read returned an error: the loop ends, Outputf("Disconnected from
\* %#v: %v\n", host, err), and the goroutine returns
readerDisconnect(h) ==
    /\ Alive
    /\ reader[h].st = "reading"
    /\ closes[ReadsFrom(h)] > 0 \/ peerEOF[ReadsFrom(h)]
    /\ reader' = [reader EXCEPT ![h].st = "done"]
    /\ Outputf(Item(h, "disconnected", <<>>, NoVal, reader[h].host,
                    IF closes[ReadsFrom(h)] > 0 THEN "closed" ELSE "EOF", 0))
    /\ UNCHANGED <<pc, dialed, wlog, rcvd, peerEOF>>
    /\ UNCHANGED slotVars
    /\ UNCHANGED uiVars

\* The peer closes or resets connection h
peerClose(h) ==
    /\ Alive
    /\ h <= dialed
    /\ closes[h] = 0
    /\ ~peerEOF[h]
    /\ peerEOF' = [peerEOF EXCEPT ![h] = TRUE]
    /\ UNCHANGED <<pc, dialed, output, wlog, reader, rcvd>>
    /\ UNCHANGED slotVars
    /\ UNCHANGED uiVars

Outcomes == {"ok", "resolve", "dial"}

\* Line dispatch, connections and their readers, with every call of Outputf
\* taken as one step
Next ==
    \/ (\E l \in Lines : Edit(l)) /\ UNCHANGED auxVars
    \/ handleLine /\ UNCHANGED auxVars
    \/ (\E hst \in Hosts, outcome \in Outcomes : connect(hst, outcome))
          /\ UNCHANGED auxVars
    \/ setConnLoad("ui") /\ UNCHANGED auxVars
    \/ setConnClose("ui") /\ UNCHANGED auxVars
    \/ setConnCAS("ui") /\ UNCHANGED auxVars
    \/ connectReturn /\ UNCHANGED auxVars
    \/ evalReturn /\ UNCHANGED auxVars
    \/ evalError /\ UNCHANGED auxVars
    \/ (\E h \in Handles : readerRead(h)) /\ UNCHANGED auxVars
    \/ (\E h \in Handles : readerDisconnect(h)) /\ UNCHANGED auxVars
    \/ (\E h \in Handles : peerClose(h)) /\ UNCHANGED auxVars

Spec == Init /\ [][Next]_vars

\* --------------------------------------------- two threads in setConn
\* Thread t calls setConn with a handle of its own
raceCall(t) ==
    /\ pc[t] = "idle"
    /\ dialed < MaxRaceCalls
    /\ dialed' = dialed + 1
    /\ c' = [c EXCEPT ![t] = dialed + 1]
    /\ pc' = [pc EXCEPT ![t] = "load"]
    /\ UNCHANGED <<connection, closes, installed, oldConn, output, wlog>>
    /\ UNCHANGED uiVars
    /\ UNCHANGED netVars

\* Thread t's setConn returns
raceReturn(t) ==
    /\ pc[t] = "ret"
    /\ pc' = [pc EXCEPT ![t] = "idle"]
    /\ oldConn' = [oldConn EXCEPT ![t] = NoConn]
    /\ c' = [c EXCEPT ![t] = NoConn]
    /\ UNCHANGED <<dialed, output, wlog>>
    /\ UNCHANGED <<connection, closes, installed>>
    /\ UNCHANGED uiVars
    /\ UNCHANGED netVars

NextRace ==
    \/ (\E t \in Threads : raceCall(t)) /\ UNCHANGED auxVars
    \/ (\E t \in Threads : setConnLoad(t)) /\ UNCHANGED auxVars
    \/ (\E t \in Threads : setConnClose(t)) /\ UNCHANGED auxVars
    \/ (\E t \in Threads : setConnCAS(t)) /\ UNCHANGED auxVars
    \/ (\E t \in Threads : raceReturn(t)) /\ UNCHANGED auxVars

SpecRace == Init /\ [][NextRace]_vars

\* ------------------------------------------------- the readers at length
\* The lines typed when the readers are looked at: a script, a payload line,
\* and a payload line of one character
NetLines == {<<"/", "a", "a">>, <<"a", "a">>, <<"a">>}

\* The program with few different lines and hosts and with peers that send
\* more than one byte
NextNet ==
    \/ (\E l \in NetLines : Edit(l)) /\ UNCHANGED auxVars
    \/ handleLine /\ UNCHANGED auxVars
    \/ (\E outcome \in Outcomes : connect("h1", outcome)) /\ UNCHANGED auxVars
    \/ setConnLoad("ui") /\ UNCHANGED auxVars
    \/ setConnClose("ui") /\ UNCHANGED auxVars
    \/ setConnCAS("ui") /\ UNCHANGED auxVars
    \/ connectReturn /\ UNCHANGED auxVars
    \/ evalReturn /\ UNCHANGED auxVars
    \/ evalError /\ UNCHANGED auxVars
    \/ (\E h \in Handles : readerReadN(h, MaxNetBytes)) /\ UNCHANGED auxVars
    \/ (\E h \in Handles : readerDisconnect(h)) /\ UNCHANGED auxVars
    \/ (\E h \in Handles : peerClose(h)) /\ UNCHANGED auxVars

SpecNet == Init /\ [][NextNet]_vars

\* The same with a scheduler that lets every reader goroutine run: a reader
\* whose Read can return is not held up for ever
SpecLive ==
    /\ SpecNet
    /\ \A h \in Handles : WF_vars(readerReadN(h, MaxNetBytes) /\ UNCHANGED auxVars)
    /\ \A h \in Handles : WF_vars(readerDisconnect(h) /\ UNCHANGED auxVars)

\* ------------------------------------------------------ the interrupt key
\* The clock advances by 100 ms
Tick ==
    /\ pc["ui"] = "idle"
    /\ now < Boot + MaxTime
    /\ now' = now + 1
    /\ UNCHANGED <<pc, dialed, output, wlog, appending, ctrlcAt>>
    /\ UNCHANGED slotVars
    /\ UNCHANGED uiVars
    /\ UNCHANGED netVars

\* Client.arrowUp
arrowUp ==
    /\ pc["ui"] = "idle"
    /\ Len(output) < MaxGestures
    /\ Outputf(Item(0, "arrowup", <<>>, NoVal, "", "", 0))
    /\ UNCHANGED <<pc, dialed, wlog, appending, ctrlcAt, now>>
    /\ UNCHANGED slotVars
    /\ UNCHANGED uiVars
    /\ UNCHANGED netVars

\* An interrupt handler that quits up to and including the timeout
ctrlcInclusive ==
    /\ pc["ui"] = "idle"
    /\ IF now - ctrlcAt <= ctrlcTimeout
       THEN /\ pc' = [pc EXCEPT !["ui"] = "quit"]
            /\ UNCHANGED <<ctrlcAt, output>>
       ELSE /\ Len(output) < MaxGestures
            /\ ctrlcAt' = now
            /\ Outputf(Item(0, "ctrlc", <<>>, NoVal, "", "", now))
            /\ UNCHANGED pc
    /\ UNCHANGED <<dialed, wlog, appending, now>>
    /\ UNCHANGED slotVars
    /\ UNCHANGED uiVars
    /\ UNCHANGED netVars

\* An interrupt handler that quits on any gesture after the first
ctrlcCounts ==
    /\ pc["ui"] = "idle"
    /\ IF ctrlcAt # ZeroTime
       THEN /\ pc' = [pc EXCEPT !["ui"] = "quit"]
            /\ UNCHANGED <<ctrlcAt, output>>
       ELSE /\ Len(output) < MaxGestures
            /\ ctrlcAt' = now
            /\ Outputf(Item(0, "ctrlc", <<>>, NoVal, "", "", now))
            /\ UNCHANGED pc
    /\ UNCHANGED <<dialed, wlog, appending, now>>
    /\ UNCHANGED slotVars
    /\ UNCHANGED uiVars
    /\ UNCHANGED netVars

\* Client.ctrlc: gocui.ErrorQuit ends MainLoop and Run returns; otherwise
\* the time is recorded and the warning is appended (the append carries the
\* time of the gesture for the record)
ctrlc ==
    /\ pc["ui"] = "idle"
    /\ IF now - ctrlcAt < ctrlcTimeout
       THEN /\ pc' = [pc EXCEPT !["ui"] = "quit"]
            /\ UNCHANGED <<ctrlcAt, output>>
       ELSE /\ Len(output) < MaxGestures
            /\ ctrlcAt' = now
            /\ Outputf(Item(0, "ctrlc", <<>>, NoVal, "", "", now))
            /\ UNCHANGED pc
    /\ UNCHANGED <<dialed, wlog, appending, now>>
    /\ UNCHANGED slotVars
    /\ UNCHANGED uiVars
    /\ UNCHANGED netVars

\* The key bindings of the interrupt and arrow keys while time passes
NextCtrlC ==
    \/ Tick
    \/ arrowUp
    \/ ctrlc

SpecCtrlC == Init /\ [][NextCtrlC]_vars

\* ------------------------------------------- Outputf as a call that lasts
\* A step of the UI thread: it is not inside Outputf, and it is inside
\* Outputf afterwards if the step has called it
uiStep(A) ==
    /\ 0 \notin appending
    /\ A
    /\ appending' = IF output' # output THEN appending \cup {0} ELSE appending
    /\ UNCHANGED <<ctrlcAt, now>>

\* A step of the reader goroutine of h, which calls Outputf
readerStep(h, A) ==
    /\ h \notin appending
    /\ A
    /\ appending' = appending \cup {h}
    /\ UNCHANGED <<ctrlcAt, now>>

\* fmt.Fprintf(v, format, params...) returns to the thread that called
\* Outputf
OutputfReturn(s) ==
    /\ Alive
    /\ s \in appending
    /\ appending' = appending \ {s}
    /\ UNCHANGED <<pc, dialed, output, wlog, ctrlcAt, now>>
    /\ UNCHANGED slotVars
    /\ UNCHANGED uiVars
    /\ UNCHANGED netVars

\* The program with every call of Outputf taking time: nothing in Outputf
\* or around its calls makes a thread wait for another
NextAppend ==
    \/ \E l \in NetLines : uiStep(Edit(l))
    \/ uiStep(handleLine)
    \/ \E outcome \in Outcomes : uiStep(connect("h1", outcome))
    \/ uiStep(setConnLoad("ui"))
    \/ uiStep(setConnClose("ui"))
    \/ uiStep(setConnCAS("ui"))
    \/ uiStep(connectReturn)
    \/ uiStep(evalReturn)
    \/ uiStep(evalError)
    \/ \E h \in Handles : readerStep(h, readerRead(h))
    \/ \E h \in Handles : readerStep(h, readerDisconnect(h))
    \/ (\E h \in Handles : peerClose(h)) /\ UNCHANGED auxVars
    \/ \E s \in {0} \cup Handles : OutputfReturn(s)

SpecAppend == Init /\ [][NextAppend]_vars


\* ============================================================ properties
\* The handle dialed by the last successful connect: handles are numbered
\* in dial order, so it is the number of successful dials (NoConn if none)
LastDialed == dialed

\* The UI thread is inside setConn
InSetConn(t) == pc[t] \in {"load", "close", "cas"}

\* The handles that were stored in the slot and replaced since
Replaced == {installed[i] : i \in 1..(Len(installed) - 1)}

\* C1: whenever the UI thread is not inside a connect call, getConn() is the
\* handle dialed by the last successful connect (none if no connect has
\* succeeded), and every handle that was installed and then replaced has
\* been closed exactly once.
C1_SingleCurrentConnection ==
    ~InSetConn("ui") =>
        /\ getConn = LastDialed
        /\ \A h \in Replaced : closes[h] = 1

\* C1 witness: two connects have succeeded and a failed one lies between
\* or after them; the first handle was replaced
C1_Witness ==
    /\ pc["ui"] = "eval"
    /\ evalVal.tag = "connerr"
    /\ dialed = 2
    /\ getConn = 2
    /\ Replaced = {1}

AllReturned == \A t \in Threads : pc[t] = "idle"

\* C2: once all the concurrent setConn calls have returned, the slot holds
\* one of the handles passed in, namely the one stored by the last
\* successful compare-and-swap, that handle is open, and every other handle
\* that was passed to setConn has been in the slot and has been closed.
C2_LastWriterWins ==
    (AllReturned /\ dialed > 0) =>
        /\ getConn \in 1..dialed
        /\ getConn = installed[Len(installed)]
        /\ closes[getConn] = 0
        /\ \A h \in 1..dialed :
              h # getConn => (h \in Replaced /\ closes[h] >= 1)

\* C2 witness: handle 1 was current when the calls for 2 and 3 raced; both
\* closed it, 3 was stored first and the call for 2 retried and won
C2_Witness ==
    /\ AllReturned
    /\ installed = <<1, 3, 2>>
    /\ closes[1] = 2

\* C3: at every point of every interleaving of two threads in setConn,
\* getConn() (the slot, and every value a thread has loaded from it) is
\* none or one of the handles passed to setConn.
C3_NoTornReads ==
    /\ getConn \in {NoConn} \cup (1..dialed)
    /\ \A t \in Threads : oldConn[t] \in {NoConn} \cup (1..dialed)

\* C3 witness: both threads are inside setConn and the slot holds a handle
C3_Witness ==
    /\ InSetConn("ui")
    /\ InSetConn("bg")
    /\ getConn # NoConn
    /\ oldConn["ui"] # oldConn["bg"]

\* C4: at every instant the slot holds none or a handle that setConn has
\* not closed.
C4_SlotNeverHoldsClosed == getConn # NoConn => closes[getConn] = 0

\* The submitted line is a payload line: not empty after trimming and not
\* starting with the sentinel
IsPayload(l) == TrimSpace(l) # <<>> /\ TrimSpace(l)[1] # "/"

\* C5: handleLine on a payload line, with a handle in the slot, writes
\* exactly the trimmed line and a line terminator to that handle and
\* appends nothing to the output.
C5_PayloadIsWritten ==
    [][(handleLine /\ IsPayload(inputLine) /\ getConn # NoConn) =>
          /\ \E ok \in BOOLEAN :
                wlog' = Append(wlog, Written(getConn,
                                   Fprintln(TrimSpace(inputLine)), ok))
          /\ output' = output]_vars

\* C6: handleLine on a payload line, with no handle in the slot, appends
\* exactly one "nowhere to send" notice carrying the line and writes
\* nothing; and nothing but the dispatch of a line itself ever writes, so
\* the line is not delivered later.
C6_NowhereToSend ==
    [][/\ (handleLine /\ IsPayload(inputLine) /\ getConn = NoConn) =>
             /\ output' = Append(output, Item(0, "nowhere",
                                     TrimSpace(inputLine), NoVal, "", "", 0))
             /\ wlog' = wlog
       /\ ~handleLine => wlog' = wlog]_vars

\* C7: handleLine on a line that starts with the sentinel writes nothing
\* to the network and hands the remainder to the evaluator, and the
\* evaluation ends with exactly one append and the UI thread running.
C7_SentinelIsEvaluated ==
    [][/\ (handleLine /\ Len(inputLine) > 0 /\ inputLine[1] = "/") =>
             /\ pc'["ui"] = "eval"
             /\ evalSrc' = Tail(TrimSpace(inputLine))
             /\ wlog' = wlog
       /\ (pc["ui"] = "eval" /\ pc'["ui"] = "idle") =>
             /\ Len(output') = Len(output) + 1
             /\ wlog' = wlog]_vars

\* C8: handleLine on an empty or whitespace-only line appends nothing,
\* writes nothing, does not call the evaluator and returns normally.
C8_BlankLineIsNoOp ==
    [][(handleLine /\ TrimSpace(inputLine) = <<>>) =>
          /\ output' = output
          /\ wlog' = wlog
          /\ pc' = pc]_vars

\* C9: when the write of a payload line fails, handleLine appends a report
\* to the output, the UI thread keeps running and the input line is
\* cleared.
C9_WriteFailureReported ==
    [][(handleLine /\ Len(wlog') > Len(wlog) /\ ~wlog'[Len(wlog')].ok) =>
          /\ Len(output') = Len(output) + 1
          /\ pc'["ui"] = "idle"
          /\ inputLine' = <<>>]_vars

\* The positions of the output at which the reader of h appended
AppendsOf(h) == {i \in 1..Len(output) : output[i].src = h}
NoticesOf(h) == {i \in AppendsOf(h) : output[i].kind = "disconnected"}

BytesOf(h) == {i \in AppendsOf(h) : output[i].kind = "byte"}

\* C10: a reader that has not terminated has appended no disconnect
\* notice; a reader that has terminated has appended exactly one, naming
\* the host of the connect that spawned it, and that notice is the last
\* thing it appended; every read of a byte is in the output, so that a
\* terminated reader has neither read nor appended after its notice.
C10_ReaderTerminatesOnce ==
    \A h \in Handles :
        /\ Cardinality(BytesOf(h)) = rcvd[h]
        /\ reader[h].st # "done" => NoticesOf(h) = {}
        /\ reader[h].st = "done" =>
              /\ Cardinality(NoticesOf(h)) = 1
              /\ \A i \in NoticesOf(h) :
                    /\ output[i].host = reader[h].host
                    /\ \A j \in AppendsOf(h) : j <= i

\* C10 witness: the reader of the first connection read a byte, met the
\* peer's EOF and terminated, and the output went on growing after its
\* notice
C10_Witness ==
    /\ reader[1].st = "done"
    /\ peerEOF[1]
    /\ rcvd[1] = 1
    /\ \E i \in NoticesOf(1) : i < Len(output)
    /\ reader[1].host # reader[2].host
    /\ reader[2].st = "reading"


\* The script's call of connect fails in this step
ConnectFails ==
    \E hst \in Hosts, outcome \in Outcomes \ {"ok"} :
        /\ connect(hst, outcome)
        /\ evalVal' = ConnErrVal(hst, outcome)

\* C11: a connect that fails at resolution or at dial leaves the slot, the
\* Close counts and the readers as they were and hands the script an
\* ordinary value with the target and the cause; the UI thread goes on
\* evaluating, and such a value reaches the output only as a result, never
\* as an evaluation error.
C11_FailedConnectIsAValue ==
    [][/\ ConnectFails =>
             /\ getConn' = getConn
             /\ closes' = closes
             /\ installed' = installed
             /\ reader' = reader
             /\ dialed' = dialed
             /\ evalVal'.tag = "connerr"
             /\ evalVal'.host \in Hosts
             /\ evalVal'.cause \in {"resolve", "dial"}
             /\ pc'["ui"] = "eval"
       /\ (pc["ui"] = "eval" /\ evalVal.tag = "connerr" /\ evalReturn) =>
             output' = Append(output, Item(0, "result", <<>>, evalVal,
                                          "", "", 0))]_vars

\* C11 witness: one script connected and then had a further connect fail, so
\* that its result is the failure; the next line was written to the handle
\* that connect had installed, which is still open and still has its reader
C11_Witness ==
    /\ pc["ui"] = "idle"
    /\ dialed = 1
    /\ getConn = 1
    /\ closes[1] = 0
    /\ reader[1].st = "reading"
    /\ Len(output) = 1
    /\ output[1].kind = "result"
    /\ output[1].val.tag = "connerr"
    /\ Len(wlog) = 1
    /\ wlog[1].conn = 1
    /\ wlog[1].ok

\* The handles for which a reader goroutine was started
Spawned == {h \in Handles : reader[h].st # "none"}

\* C12: the readers ever spawned are those of the handles dialed by a
\* successful connect, one each; once the UI thread is out of setConn each
\* of these handles was installed in the slot, in the order of the
\* connects, and the last of them is in the slot; the bytes a reader
\* appended are as many as were read from its own handle, numbered as that
\* handle's reads.
C12_OneReaderPerConnect ==
    /\ Spawned = 1..dialed
    /\ Cardinality(Spawned) = dialed
    /\ ~InSetConn("ui") =>
          /\ installed = [i \in 1..dialed |-> i]
          /\ getConn = dialed
    /\ \A h \in Handles :
          /\ Cardinality(BytesOf(h)) = rcvd[h]
          /\ {output[i].n : i \in BytesOf(h)} = 1..rcvd[h]

\* C12 witness: two connects succeeded; the second handle's reader read a
\* byte, and after that, with the second connect still under way, the first
\* handle's reader read a byte
C12_Witness ==
    /\ dialed = 2
    /\ installed = <<1, 2>>
    /\ \E i, j \in 1..Len(output) :
          /\ i < j
          /\ output[i].src = 2 /\ output[i].kind = "byte"
          /\ output[j].src = 1 /\ output[j].kind = "byte"

\* C18: no handle is closed more than once, whatever the interleaving of
\* concurrent setConn calls.
C18_ClosedAtMostOnce ==
    \A h \in Handles : closes[h] <= 1

\* C19: the slot changes only in the compare-and-swap of a successful
\* connect and never goes back to none; a payload line dispatched when the
\* peer of the current handle is gone and its reader has terminated is
\* written to that handle, and no notice is appended.
C19_SlotOnlyChangedByConnect ==
    [][/\ connection' # connection =>
             /\ setConnCAS("ui")
             /\ connection' = c["ui"]
             /\ connection' = LastDialed
       /\ getConn # NoConn => getConn' # NoConn
       /\ (/\ handleLine
           /\ IsPayload(inputLine)
           /\ getConn # NoConn
           /\ peerEOF[getConn]
           /\ reader[getConn].st = "done") =>
             /\ Len(wlog') = Len(wlog) + 1
             /\ wlog'[Len(wlog')].conn = getConn
             /\ output' = output]_vars

\* What the reader spawned for h has appended, in the order of the output
AppendedBy(h) == SelectSeq(output, LAMBDA it : it.src = h)

\* C16: what the reader of a connection has appended is, in this order, the
\* first byte read from the connection, the second, and so on up to the
\* last one read, each once, followed by the disconnect notice if the
\* reader has terminated and by nothing else, wherever the appends of others
\* fall in between.
C16_BytesInOrderBeforeNotice ==
    \A h \in Handles :
        LET s == AppendedBy(h) IN
        /\ Len(s) = rcvd[h] + (IF reader[h].st = "done" THEN 1 ELSE 0)
        /\ \A i \in 1..rcvd[h] : s[i].kind = "byte" /\ s[i].n = i
        /\ reader[h].st = "done" => s[Len(s)].kind = "disconnected"

\* C16 witness: the first connection delivered two bytes, with an append of
\* the UI thread between them, and then its reader terminated
C16_Witness ==
    /\ reader[1].st = "done"
    /\ rcvd[1] = 2
    /\ \E i, j, k \in 1..Len(output) :
          /\ i < j /\ j < k
          /\ output[i].src = 1 /\ output[i].n = 1
          /\ output[j].src = 0
          /\ output[k].src = 1 /\ output[k].n = 2

\* C13: at no time are two threads inside Outputf, that is, appending to
\* the output view.
C13_AppendsNeverOverlap ==
    Cardinality(appending) <= 1

\* C15: a handle that a later connect has replaced in the slot leads to its
\* reader having appended its disconnect notice and terminated.
C15_ReplacedReaderTerminates ==
    \A h \in Handles :
        (h \in Replaced) ~> (reader[h].st = "done" /\ NoticesOf(h) # {})

\* The warnings of the interrupt handler, in the order of the output
Warnings == SelectSeq(output, LAMBDA it : it.kind = "ctrlc")

\* The time of the most recent gesture that issued a warning
LastWarningAt == Warnings[Len(Warnings)].n

\* C14: an interrupt gesture quits if and only if a warning was issued
\* before and the gesture comes strictly less than ctrlcTimeout after the
\* most recent one; a gesture that does not quit records the current time
\* and appends the warning.
C14_QuitsIffWithinTimeout ==
    [][ctrlc =>
          IF Len(Warnings) > 0 /\ now - LastWarningAt < ctrlcTimeout
          THEN /\ pc'["ui"] = "quit"
               /\ output' = output
          ELSE /\ pc'["ui"] = "idle"
               /\ ctrlcAt' = now
               /\ Len(output') = Len(output) + 1
               /\ output'[Len(output')].kind = "ctrlc"
               /\ output'[Len(output')].n = now]_vars

\* C14 witness: a gesture, a second one 1.5 s later that warned again, and
\* a third one 0.2 s after the second that quit
C14_Witness ==
    /\ pc["ui"] = "quit"
    /\ Len(Warnings) = 2
    /\ Warnings[2].n - Warnings[1].n = 15
    /\ now - Warnings[2].n = 2

\* C17: the handler's whole state is one timestamp, the zero time before
\* the first warning and the time of the latest warning afterwards; whether
\* a gesture quits is decided by the distance of the clock from that
\* timestamp alone, so the first gesture does not quit, a gesture at or
\* after the timeout moves the timestamp to its own time, and the program
\* has quit only less than ctrlcTimeout after the latest warning.
C17_SingleTimestamp ==
    /\ [](/\ ctrlcAt = IF Len(Warnings) = 0 THEN ZeroTime ELSE LastWarningAt
          /\ pc["ui"] = "quit" =>
                /\ Len(Warnings) > 0
                /\ now - ctrlcAt < ctrlcTimeout)
    /\ [][ctrlc =>
             /\ pc'["ui"] = "quit" <=> now - ctrlcAt < ctrlcTimeout
             /\ now - ctrlcAt >= ctrlcTimeout => ctrlcAt' = now
             /\ Len(Warnings) = 0 => pc'["ui"] = "idle"]_vars

\* C17 witness: three warnings, the third exactly ctrlcTimeout after the
\* second, and then a gesture within the window of the third that quit
C17_Witness ==
    /\ pc["ui"] = "quit"
    /\ Len(Warnings) = 3
    /\ Warnings[3].n - Warnings[2].n = ctrlcTimeout
    /\ now - Warnings[3].n < ctrlcTimeout

====
